---- MODULE Spec2Model ----
(***************************************************************************)
(* Token-operation execution pipeline of tensaikit: the Morpho write       *)
(* logic functions (supply, withdraw, borrow, repay and the collateral     *)
(* variants), the Morpho action providers, the SushiSwap swap executors    *)
(* and the ERC20 transfer action, together with approve/allowance          *)
(* (utils.ts) and the error normaliser.                                    *)
(*                                                                         *)
(* One execution of one public action is a sequence of steps; every await  *)
(* on the wallet, the chain or an HTTP service is one step whose result    *)
(* (value or throw) is chosen by the environment.                          *)
(*                                                                         *)
(* Besides the pipeline (Spec) the module holds further parts, each        *)
(* with its own specification over its own variables while the others rest:*)
(* TensaiKit.getActions, the dispatcher over the action providers          *)
(* (DispatcherSpec); handleError applied to any caught value               *)
(* (NormaliserSpec); and PrivyEvmDelegatedEmbeddedWalletProvider, the      *)
(* wallet backed by a remote signer (WalletSpec), with its request         *)
(* signature generation run repeatedly (SigningSpec).  Two executions of   *)
(* one approving operation in flight at the same time are RaceSpec.        *)
(***************************************************************************)
EXTENDS Integers, Sequences, FiniteSets, TLC

(* ----------------------------- bounds ---------------------------------- *)
MaxInt == 1
MaxFracLen == 2
MaxRuns == 2

Digits == {0, 4, 5, 9}
TokenDecimals == {0, 1, 2, 6}
InitAllowances == {0, 150, 1500000}

\* the value of a local that has not been assigned
None == 0 - 2000000000

(* --------------------------- operations -------------------------------- *)
\* MorphoWriteActionProvider's actions (its repay is named repayLoanAsset
\* here, to tell it from MorphoProtocolActionProvider.repay)
MorphoWriteOps ==
  {"supplyLoanAsset", "withdrawLoanAsset", "supplyCollateralLoanAsset",
   "withdrawCollateralLoanAsset", "borrowLoanAsset", "repayLoanAsset"}

MorphoProtocolOps ==
  {"supply", "withdraw", "supplyCollateral", "withdrawCollateral",
   "borrow", "repay"}

SwapOps == {"executeSwapOnly", "executeSwap"}

Erc20Ops == {"transfer"}

Ops == MorphoWriteOps \cup MorphoProtocolOps \cup SwapOps \cup Erc20Ops

Family(o) ==
  IF o \in MorphoWriteOps THEN "morphoWrite"
  ELSE IF o \in MorphoProtocolOps THEN "morphoProtocol"
  ELSE IF o = "executeSwapOnly" THEN "swapExec"
  ELSE IF o = "executeSwap" THEN "swapInline"
  ELSE "erc20"

IsMorpho(o) == o \in MorphoWriteOps \cup MorphoProtocolOps
IsSwap(o) == o \in SwapOps

\* the operations whose code calls allowance()/approve()
ApprovingOps ==
  {"supplyLoanAsset", "supplyCollateralLoanAsset", "repayLoanAsset",
   "supply", "supplyCollateral", "repay"} \cup SwapOps

(* ----------------------------- amounts --------------------------------- *)
\* a human amount: sign, integer part, fractional digits (most significant
\* first).  Morpho receives it as a string, the swap as a JS number.
RECURSIVE SeqsUpTo(_)
SeqsUpTo(n) ==
  IF n = 0 THEN {<<>>}
  ELSE LET prev == SeqsUpTo(n - 1)
       IN prev \cup {Append(s, d) : s \in {p \in prev : Len(p) = n - 1}, d \in Digits}

Amounts ==
  [neg : BOOLEAN, int : 0..MaxInt, frac : SeqsUpTo(MaxFracLen)]

RECURSIVE Pow10(_)
Pow10(n) == IF n = 0 THEN 1 ELSE 10 * Pow10(n - 1)

RECURSIVE DigitsVal(_)
DigitsVal(s) ==
  IF Len(s) = 0 THEN 0
  ELSE 10 * DigitsVal(SubSeq(s, 1, Len(s) - 1)) + s[Len(s)]

\* |a| * 10^Len(a.frac)
Mantissa(a) == a.int * Pow10(Len(a.frac)) + DigitsVal(a.frac)

LessThanZero(a) == a.neg /\ Mantissa(a) > 0

\* Decimal.lessThanOrEqualTo(0)
LessThanOrEqualToZero(a) == a.neg \/ Mantissa(a) = 0

IsPositive(a) == ~a.neg /\ (a.int > 0 \/ \E i \in 1..Len(a.frac) : a.frac[i] > 0)

\* |a| * 10^d = ScaledQuot + ScaledRem / ScaledDen, with ScaledRem < ScaledDen
ScaledDen(a, d) == IF d >= Len(a.frac) THEN 1 ELSE Pow10(Len(a.frac) - d)
ScaledQuot(a, d) ==
  IF d >= Len(a.frac) THEN Mantissa(a) * Pow10(d - Len(a.frac))
  ELSE Mantissa(a) \div ScaledDen(a, d)
ScaledRem(a, d) ==
  IF d >= Len(a.frac) THEN 0 ELSE Mantissa(a) % ScaledDen(a, d)

\* floor(|a| * 10^d), the reference value
FloorAtomic(a, d) == ScaledQuot(a, d)

\* |a| * 10^d is an integer
IsExactAtomic(a, d) == ScaledRem(a, d) = 0

\* fraction.replace(/(0+)$/, "")
RECURSIVE TrimTrailingZeros(_)
TrimTrailingZeros(s) ==
  IF Len(s) > 0 /\ s[Len(s)] = 0
  THEN TrimTrailingZeros(SubSeq(s, 1, Len(s) - 1))
  ELSE s

\* Math.round(Number(`${unit}.${right}`)) for a digit string right
RoundUnit(unit, right) ==
  IF Len(right) > 0 /\ right[1] >= 5 THEN unit + 1 ELSE unit

\* viem parseUnits(value, decimals): the magnitude of the result
ParseUnitsMagnitude(a, d) ==
  LET fraction == TrimTrailingZeros(a.frac)
  IN IF d = 0
     THEN IF RoundUnit(0, fraction) = 1 THEN a.int + 1 ELSE a.int
     ELSE IF Len(fraction) > d
     THEN LET left == SubSeq(fraction, 1, d - 1)
              unit == fraction[d]
              right == SubSeq(fraction, d + 1, Len(fraction))
              rounded == RoundUnit(unit, right)
              \* `${BigInt(left) + 1n}0` padded, or `${left}${rounded}`
              fracVal == IF rounded > 9
                         THEN (DigitsVal(left) + 1) * 10
                         ELSE DigitsVal(left) * 10 + rounded
              \* fraction.length > decimals: carry into the integer part
              carry == fracVal >= Pow10(d)
          IN IF carry
             THEN (a.int + 1) * Pow10(d) + (fracVal - Pow10(d))
             ELSE a.int * Pow10(d) + fracVal
     ELSE a.int * Pow10(d) + DigitsVal(fraction) * Pow10(d - Len(fraction))

ParseUnitsTruncating(a, d) ==
  IF a.neg THEN 0 - ScaledQuot(a, d) ELSE ScaledQuot(a, d)

ParseUnits(a, d) ==
  IF a.neg THEN 0 - ParseUnitsMagnitude(a, d) ELSE ParseUnitsMagnitude(a, d)

\* new Decimal(amount).mul(new Decimal(10).pow(decimals)).toFixed(0), read
\* back with BigInt(): decimal.js rounds with Decimal.rounding = ROUND_HALF_UP
AmountInBaseUnits(a, d) ==
  LET mag == ScaledQuot(a, d) +
             (IF 2 * ScaledRem(a, d) >= ScaledDen(a, d) /\ ScaledRem(a, d) > 0
              THEN 1 ELSE 0)
  IN IF a.neg THEN 0 - mag ELSE mag

(* ------------------------------ errors --------------------------------- *)
\* a thrown value: a CustomError (typed, with a code), a plain Error, or
\* none.  msg is the message as the list of its ": "-separated parts.
NoErr == [kind |-> "none", code |-> "", msg |-> <<>>]

CreateError(message, code) ==
  [kind |-> "CustomError", code |-> code, msg |-> <<message>>]

PlainError(message) == [kind |-> "Error", code |-> "", msg |-> <<message>>]

\* a caught value that is no Error: a primitive [kind, value] with value its
\* source text, or an object [kind |-> "object", entries] whose entries are
\* [key, val], val a primitive or [kind |-> "circular"] (the object itself)
Primitive(kind, value) == [kind |-> kind, value |-> value]
Undefined == Primitive("undefined", "undefined")
Object(entries) == [kind |-> "object", entries |-> entries]

\* JSON.stringify(v) throws a TypeError on a BigInt and on a cycle
JsonThrows(v) ==
  \/ v.kind \in {"bigint", "circular"}
  \/ /\ v.kind = "object"
     /\ \E i \in 1..Len(v.entries) : v.entries[i].val.kind \in {"bigint", "circular"}

\* JSON.stringify of a primitive that does not make it throw, as text
\* parts; <<>> when the result is undefined (no text at all)
JsonPrimitive(v) ==
  CASE v.kind = "string" -> <<"\"", v.value, "\"">>
    [] v.kind = "number" ->
         IF v.value \in {"NaN", "Infinity"} THEN <<"null">> ELSE <<v.value>>
    [] v.kind = "null" -> <<"null">>
    [] OTHER -> <<>>

\* the members of an object from entry i on: entries whose value
\* stringifies to undefined are left out
RECURSIVE JsonMembers(_, _, _)
JsonMembers(entries, i, first) ==
  IF i > Len(entries) THEN <<>>
  ELSE LET t == JsonPrimitive(entries[i].val)
       IN IF t = <<>> THEN JsonMembers(entries, i + 1, first)
          ELSE (IF first THEN <<>> ELSE <<",">>)
               \o <<"\"", entries[i].key, "\"", ":">> \o t
               \o JsonMembers(entries, i + 1, FALSE)

JsonStringify(v) ==
  IF v.kind = "object" THEN <<"{">> \o JsonMembers(v.entries, 1, TRUE) \o <<"}">>
  ELSE JsonPrimitive(v)

\* `${JSON.stringify(v)}`: an undefined result prints as "undefined"
TemplateText(v) ==
  IF JsonStringify(v) = <<>> THEN <<"undefined">> ELSE JsonStringify(v)

\* handleError built without the instanceof CustomError test
HandleErrorAlwaysWrapping(message, error) ==
  IF error.kind \in {"CustomError", "Error"}
    THEN [kind |-> "CustomError", code |-> "UNKNOWN_ERROR",
          msg |-> <<message>> \o error.msg]
  ELSE IF JsonThrows(error)
    THEN [kind |-> "Error", code |-> "", msg |-> <<"TypeError">>]
  ELSE [kind |-> "CustomError", code |-> "UNKNOWN_ERROR",
        msg |-> <<message>> \o TemplateText(error)]

\* what comes out of handleError(message, error): the CustomError it
\* returns, or the TypeError JSON.stringify throws inside it
HandleError(message, error) ==
  IF error.kind = "CustomError" THEN error
  ELSE IF error.kind = "Error"
    THEN [kind |-> "CustomError", code |-> "UNKNOWN_ERROR",
          msg |-> <<message>> \o error.msg]
  ELSE IF JsonThrows(error)
    THEN PlainError("TypeError")
  ELSE [kind |-> "CustomError", code |-> "UNKNOWN_ERROR",
        msg |-> <<message>> \o TemplateText(error)]

\* whether handleError(message, error) ends by throwing instead of returning
HandleErrorThrows(error) ==
  error.kind \notin {"CustomError", "Error"} /\ JsonThrows(error)

\* the context string of the catch block of the logic function behind a
\* MorphoWriteActionProvider action
LogicCtx(o) ==
  CASE o = "supplyLoanAsset" -> "Error supplying loan token to Morpho Vault"
    [] o = "withdrawLoanAsset" -> "Error withdrawing from Morpho Vault"
    [] o = "supplyCollateralLoanAsset" -> "Error supplying collateral to Morpho Vault"
    [] o = "withdrawCollateralLoanAsset" -> "Failed to withdraw collateral token from Morpho Vault"
    [] o = "borrowLoanAsset" -> "Error borrowing from Morpho Vault"
    [] o = "repayLoanAsset" -> "Error repaying to Morpho Vault"
    [] o = "executeSwapOnly" -> "Failed to prepare and send swap transaction"
    [] OTHER -> ""

\* the context string of the catch block of the action itself
ActionCtx(o) ==
  CASE o = "supplyLoanAsset" -> "Error supplying loan token to Morpho Vault"
    [] o = "withdrawLoanAsset" -> "Error withdrawing from Morpho Vault"
    [] o = "supplyCollateralLoanAsset" -> "Error supplying collateral to Morpho Vault"
    [] o = "withdrawCollateralLoanAsset" -> "Failed to withdraw collateral token from Morpho Vault"
    [] o = "borrowLoanAsset" -> "Error borrowing from Morpho Vault"
    [] o = "repayLoanAsset" -> "Error repaying to Morpho Vault"
    [] o = "supply" -> "Error depositing to Morpho Vault"
    [] o = "withdraw" -> "Error withdrawing from Morpho Vault"
    [] o = "supplyCollateral" -> "Error depositing to Morpho Vault"
    [] o = "withdrawCollateral" -> "Error withdrawing from Morpho Vault"
    [] o = "borrow" -> "Error borrowing from Morpho Vault"
    [] o = "repay" -> "Error repaying to Morpho Vault"
    [] o \in SwapOps -> "Failed to execute swap"
    [] OTHER -> "Error transferring the asset"

(* ----------------------------- outcomes -------------------------------- *)
\* what the public action finally does: still running, returned a value,
\* or threw.  failure says that the value returned (or thrown) describes a
\* failure; token, txHash and receipt say which machine fields it carries.
Running ==
  [kind |-> "none", failure |-> FALSE, token |-> FALSE, txHash |-> FALSE,
   receipt |-> FALSE, err |-> NoErr]

Thrown(e) ==
  [kind |-> "thrown", failure |-> TRUE, token |-> FALSE, txHash |-> FALSE,
   receipt |-> FALSE, err |-> e]

ReturnedFailure ==
  [kind |-> "returned", failure |-> TRUE, token |-> FALSE, txHash |-> FALSE,
   receipt |-> FALSE, err |-> NoErr]

SuccessPayloadHashOnly(o) ==
  [kind |-> "returned", failure |-> FALSE, token |-> FALSE, txHash |-> TRUE,
   receipt |-> FALSE, err |-> NoErr]

\* the success value of each action: the Morpho actions format loanToken /
\* collateralToken, txHash and receipt; prepareAndSendSwapTransaction returns
\* "Swap transaction successful. Transaction Hash: ..."; executeSwap returns
\* {txHash, simulation}; transfer returns a message with the contract
\* address and the hash.
SuccessPayload(o) ==
  [kind |-> "returned", failure |-> FALSE,
   token |-> (IsMorpho(o) \/ o \in Erc20Ops),
   txHash |-> TRUE,
   receipt |-> IsMorpho(o),
   err |-> NoErr]

\* an exception raised inside the try block of the logic function (or of
\* the action, when the action holds the code inline), as the action ends
CatchOutcome(o, e) ==
  CASE Family(o) = "morphoWrite" ->
         Thrown(HandleError(ActionCtx(o), HandleError(LogicCtx(o), e)))
    [] Family(o) = "swapExec" ->
         Thrown(HandleError(ActionCtx(o), HandleError(LogicCtx(o), e)))
    [] Family(o) = "swapInline" -> Thrown(HandleError(ActionCtx(o), e))
    [] Family(o) = "morphoProtocol" -> Thrown(HandleError(ActionCtx(o), e))
    [] OTHER -> ReturnedFailure

\* approve() returned a string that starts with "Error"
ApprovalFailedOutcome(o) ==
  CASE Family(o) = "morphoWrite" ->
         CatchOutcome(o, CreateError("Error approving Morpho Vault as spender",
                                     "CONTRACT_ERROR"))
    [] OTHER -> ReturnedFailure

(* ------------------------------ state ---------------------------------- *)
VARIABLES
  op,               \* the public action being executed
  args,             \* its arguments: amount, tokenIn kind
  net,              \* the wallet's network: chainId, networkId
  tokenDecimals,    \* decimals of the token, on chain / in the metadata API
  chainAllowance,   \* allowance(owner = wallet, spender = target) on chain
  pc,               \* the step the execution is at
  decimals,         \* local: decimals read
  atomicAssets,     \* local: atomicAssets / BigInt(amountInBaseUnits)
  currentAllowance, \* local: currentAllowance
  approvalResult,   \* local: "none", "Approval successful", "Error"
  calls,            \* the wallet, chain and HTTP calls issued so far
  outcome,          \* how the action ended
  failedStep,       \* the step that failed, "none" while none has
  runs,             \* number of executions started
  lastRead,         \* history: the allowance the previous execution read
                    \* (the code keeps no such value)
  outOfBand         \* history: another party changed the allowance between
                    \* the previous execution and this one

\* TensaiKit (the dispatcher): its fields and what one getActions() left
VARIABLES
  actionProviders,  \* this.actionProviders, in list order
  walletNetwork,    \* this.walletProvider.getNetwork()
  actions,          \* the array the last getActions() returned
  console,          \* the console.warn / console.info entries written so far
  getActionsCalls   \* number of getActions() calls made

\* the error normaliser applied to one caught value
VARIABLES
  caught,           \* the value a catch block received
  context,          \* the message the call site passes to handleError
  normalised,       \* what handleError did with it
  outerContext,     \* the message of the enclosing catch block
  renormalised      \* what handleError of the enclosing catch block did
                    \* with what the inner catch block threw

\* one PrivyEvmDelegatedEmbeddedWalletProvider instance
VARIABLES
  address,          \* #address
  privyNetwork,     \* #network
  authKey,          \* #authKey: the authorization key, with its scheme
  constructed,      \* what the constructor stored, for reference
  requests,         \* the remote requests of the last asynchronous operation
  result,           \* how the last operation ended
  signed            \* the runs of generatePrivySignature on record (those
                    \* of the last asynchronous operation)

\* two executions of one approving operation running at the same time, from
\* the same wallet on the same token and spender
VARIABLES
  raceAllowance,    \* allowance(wallet, spender) on chain
  raceRequired,     \* atomicAssets of each execution
  racePc,           \* the step each execution is at
  raceRead,         \* currentAllowance of each execution
  raceSends         \* the sendTransaction calls made, in order

pipeline ==
  <<op, args, net, tokenDecimals, chainAllowance, pc, decimals, atomicAssets,
    currentAllowance, approvalResult, calls, outcome, failedStep, runs,
    lastRead, outOfBand>>
dispatcher == <<actionProviders, walletNetwork, actions, console, getActionsCalls>>
normaliser == <<caught, context, normalised, outerContext, renormalised>>
wallet == <<address, privyNetwork, authKey, constructed, requests, result, signed>>
race == <<raceAllowance, raceRequired, racePc, raceRead, raceSends>>

vars == <<pipeline, dispatcher, normaliser, wallet, race>>

\* the parts of the state a specification does not exercise stay as built
DispatcherIdle ==
  /\ actionProviders = <<>>
  /\ walletNetwork = [protocolFamily |-> "evm", networkId |-> "katana-mainnet"]
  /\ actions = <<>>
  /\ console = <<>>
  /\ getActionsCalls = 0

NormaliserIdle ==
  /\ caught = [type |-> "none"]
  /\ context = ""
  /\ normalised = [type |-> "none"]
  /\ outerContext = ""
  /\ renormalised = [type |-> "none"]

WalletIdle ==
  /\ address = ""
  /\ privyNetwork = [protocolFamily |-> "evm", networkId |-> "", chainId |-> ""]
  /\ authKey = [id |-> "", scheme |-> ""]
  /\ constructed = [address |-> "", network |-> privyNetwork]
  /\ requests = <<>>
  /\ result = [by |-> "none", kind |-> "none", value |-> "", msg |-> <<>>]
  /\ signed = <<>>

Executions == {"first", "second"}

RaceIdle ==
  /\ raceAllowance = 0
  /\ raceRequired = [e \in Executions |-> 0]
  /\ racePc = [e \in Executions |-> "done"]
  /\ raceRead = [e \in Executions |-> None]
  /\ raceSends = <<>>

config == <<op, args, net, tokenDecimals>>
locals == <<decimals, atomicAssets, currentAllowance, approvalResult>>
history == <<lastRead, outOfBand>>

Networks == [chainId : {"none", "747474", "1"}, networkId : BOOLEAN]

Call(kind, what, amount, ok) ==
  [kind |-> kind, what |-> what, amount |-> amount, ok |-> ok]

Init ==
  /\ op \in Ops
  /\ args \in [amount : Amounts, tokenIn : {"erc20", "native"}]
  /\ (~IsSwap(op) => args.tokenIn = "erc20")
  /\ net \in Networks
  /\ tokenDecimals \in TokenDecimals
  /\ chainAllowance \in InitAllowances
  \* values the operation never reads are fixed
  /\ (~IsSwap(op) => net.networkId)
  /\ (op \in Erc20Ops => tokenDecimals = 0 /\ net.chainId = "747474")
  /\ (op \notin ApprovingOps \/ args.tokenIn = "native" => chainAllowance = 0)
  /\ pc = "start"
  /\ decimals = None
  /\ atomicAssets = None
  /\ currentAllowance = None
  /\ approvalResult = "none"
  /\ calls = <<>>
  /\ outcome = Running
  /\ failedStep = "none"
  /\ runs = 1
  /\ lastRead = None
  /\ outOfBand = FALSE
  /\ DispatcherIdle
  /\ NormaliserIdle
  /\ WalletIdle
  /\ RaceIdle

Finish(out, step) ==
  /\ pc' = "done"
  /\ outcome' = out
  /\ failedStep' = step

Goto(p) ==
  /\ pc' = p
  /\ UNCHANGED <<outcome, failedStep>>

(* ------------------------------ steps ---------------------------------- *)
NeedsApprovalInclusive(current, required) == current <= required

\* if (currentAllowance < atomicAssets)
NeedsApproval(current, required) == current < required

ApproveAmountPadded(required) == required + 1

\* the amount argument of approve(wallet, token, spender, amount)
ApproveAmount(required) == required

\* the step that follows the allowance block
AfterApproval(o) == IF IsSwap(o) THEN "quote" ELSE "send"

\* the context of the catch block of fetchMarketConfigFromContract
MarketCtx == "Error fetching Morpho Vault Information"

\* the amount check and the network check that open each action
Validate ==
  /\ pc = "start"
  /\ UNCHANGED <<dispatcher, normaliser, wallet, race, history>>
  /\ UNCHANGED <<config, chainAllowance, calls, runs>>
  /\ UNCHANGED <<decimals, currentAllowance, approvalResult>>
  /\ CASE Family(op) = "morphoWrite" ->
            /\ atomicAssets' = atomicAssets
            /\ IF LessThanOrEqualToZero(args.amount)
               THEN Finish(CatchOutcome(op,
                      CreateError("Error: Assets amount must be greater than 0",
                                  "INVALID_INPUT")), "validation")
               ELSE Goto("market")
       [] Family(op) = "morphoProtocol" ->
            /\ atomicAssets' = atomicAssets
            /\ IF LessThanOrEqualToZero(args.amount)
               THEN Finish(ReturnedFailure, "validation")
               ELSE IF net.chainId = "none"
               THEN Finish(Thrown(CreateError("Invalid or missing network",
                                              "INVALID_NETWORK")), "validation")
               ELSE IF net.chainId # "747474"
               THEN Finish(Thrown(PlainError("not supported for Morpho Blue.")),
                           "validation")
               ELSE Goto("market")
       [] IsSwap(op) ->
            /\ atomicAssets' = atomicAssets
            /\ IF net.chainId = "none" \/ ~net.networkId
               THEN Finish(CatchOutcome(op,
                      CreateError("Invalid or missing network",
                                  "INVALID_NETWORK")), "validation")
               ELSE Goto("metadata")
       [] OTHER ->
            \* transfer: BigInt(args.amount) throws on a fractional amount
            IF Len(args.amount.frac) > 0
            THEN /\ atomicAssets' = atomicAssets
                 /\ Finish(CatchOutcome(op, PlainError("Cannot convert to a BigInt")),
                           "validation")
            ELSE /\ atomicAssets' = (IF args.amount.neg THEN 0 - args.amount.int
                                     ELSE args.amount.int)
                 /\ Goto("send")

FetchMarketWithoutNetworkCheck ==
  /\ pc = "market"
  /\ UNCHANGED <<dispatcher, normaliser, wallet, race, history>>
  /\ UNCHANGED <<config, chainAllowance, locals, runs>>
  /\ IF FALSE
     THEN /\ calls' = calls
          /\ Finish(CatchOutcome(op, HandleError(MarketCtx,
                      CreateError("Invalid or missing network", "INVALID_NETWORK"))),
                    "market")
     ELSE IF Family(op) = "morphoWrite" /\ net.chainId # "747474"
     THEN /\ calls' = calls
          /\ Finish(CatchOutcome(op, HandleError(MarketCtx,
                      PlainError("not supported for Morpho Blue."))), "market")
     ELSE \E r \in {"ok", "falsy", "throws"} :
            /\ calls' = Append(calls,
                 Call("readContract", "idToMarketParams", None, r # "throws"))
            /\ CASE r = "ok" -> Goto("decimals")
                 [] r = "falsy" ->
                      Finish(CatchOutcome(op,
                        IF Family(op) = "morphoWrite"
                        THEN HandleError(MarketCtx,
                               CreateError("Invalid market id or missing market information",
                                           "INVALID_INPUT"))
                        ELSE CreateError("Invalid market id or missing market information",
                                         "INVALID_INPUT")), "market")
                 [] OTHER ->
                      Finish(CatchOutcome(op,
                        IF Family(op) = "morphoWrite"
                        THEN HandleError(MarketCtx, PlainError("readContract failed"))
                        ELSE PlainError("readContract failed")), "market")

\* fetchMarketConfigFromContract, or the inline idToMarketParams read
FetchMarket ==
  /\ pc = "market"
  /\ UNCHANGED <<dispatcher, normaliser, wallet, race, history>>
  /\ UNCHANGED <<config, chainAllowance, locals, runs>>
  /\ IF Family(op) = "morphoWrite" /\ net.chainId = "none"
     THEN /\ calls' = calls
          /\ Finish(CatchOutcome(op, HandleError(MarketCtx,
                      CreateError("Invalid or missing network", "INVALID_NETWORK"))),
                    "market")
     ELSE IF Family(op) = "morphoWrite" /\ net.chainId # "747474"
     THEN /\ calls' = calls
          /\ Finish(CatchOutcome(op, HandleError(MarketCtx,
                      PlainError("not supported for Morpho Blue."))), "market")
     ELSE \E r \in {"ok", "falsy", "throws"} :
            /\ calls' = Append(calls,
                 Call("readContract", "idToMarketParams", None, r # "throws"))
            /\ CASE r = "ok" -> Goto("decimals")
                 [] r = "falsy" ->
                      Finish(CatchOutcome(op,
                        IF Family(op) = "morphoWrite"
                        THEN HandleError(MarketCtx,
                               CreateError("Invalid market id or missing market information",
                                           "INVALID_INPUT"))
                        ELSE CreateError("Invalid market id or missing market information",
                                         "INVALID_INPUT")), "market")
                 [] OTHER ->
                      Finish(CatchOutcome(op,
                        IF Family(op) = "morphoWrite"
                        THEN HandleError(MarketCtx, PlainError("readContract failed"))
                        ELSE PlainError("readContract failed")), "market")

\* readContract decimals, then parseUnits(args.assets, decimals)
ReadDecimals ==
  /\ pc = "decimals"
  /\ UNCHANGED <<dispatcher, normaliser, wallet, race, history>>
  /\ UNCHANGED <<config, chainAllowance, currentAllowance, approvalResult, runs>>
  /\ \E ok \in BOOLEAN :
       /\ calls' = Append(calls, Call("readContract", "decimals", None, ok))
       /\ IF ok
          THEN /\ decimals' = tokenDecimals
               /\ atomicAssets' = ParseUnits(args.amount, tokenDecimals)
               /\ Goto(IF op \in ApprovingOps THEN "allowance" ELSE "send")
          ELSE /\ UNCHANGED <<decimals, atomicAssets>>
               /\ Finish(CatchOutcome(op, PlainError("readContract failed")),
                         "decimals")

FetchTokenMetadataAcceptingZero ==
  /\ pc = "metadata"
  /\ UNCHANGED <<dispatcher, normaliser, wallet, race, history>>
  /\ UNCHANGED <<config, chainAllowance, currentAllowance, approvalResult, runs>>
  /\ \E r \in {"ok", "missing", "throws"} :
       /\ calls' = Append(calls, Call("http", "tokenMetadata", None, r # "throws"))
       /\ CASE r = "throws" ->
                 /\ UNCHANGED <<decimals, atomicAssets>>
                 /\ Finish(CatchOutcome(op,
                      CreateError("Failed to fetch token information",
                                  "API_CALL_FAILED")), "metadata")
            [] r = "missing" ->
                 /\ UNCHANGED <<decimals, atomicAssets>>
                 /\ Finish(CatchOutcome(op,
                      CreateError("Failed to fetch token decimals",
                                  "TOKEN_METADATA_ERROR")), "metadata")
            [] OTHER ->
                 /\ decimals' = tokenDecimals
                 /\ atomicAssets' = AmountInBaseUnits(args.amount, tokenDecimals)
                 /\ Goto(IF args.tokenIn = "native" THEN "quote" ELSE "allowance")

\* fetchTokenMetadata, the decimals check and the conversion of the swap
FetchTokenMetadata ==
  /\ pc = "metadata"
  /\ UNCHANGED <<dispatcher, normaliser, wallet, race, history>>
  /\ UNCHANGED <<config, chainAllowance, currentAllowance, approvalResult, runs>>
  /\ \E r \in {"ok", "missing", "throws"} :
       /\ calls' = Append(calls, Call("http", "tokenMetadata", None, r # "throws"))
       /\ CASE r = "throws" ->
                 /\ UNCHANGED <<decimals, atomicAssets>>
                 /\ Finish(CatchOutcome(op,
                      CreateError("Failed to fetch token information",
                                  "API_CALL_FAILED")), "metadata")
            [] r = "missing" \/ (r = "ok" /\ tokenDecimals = 0) ->
                 /\ UNCHANGED <<decimals, atomicAssets>>
                 /\ Finish(CatchOutcome(op,
                      CreateError("Failed to fetch token decimals",
                                  "TOKEN_METADATA_ERROR")), "metadata")
            [] OTHER ->
                 /\ decimals' = tokenDecimals
                 /\ atomicAssets' = AmountInBaseUnits(args.amount, tokenDecimals)
                 /\ Goto(IF args.tokenIn = "native" THEN "quote" ELSE "allowance")

\* an allowance step that reuses the value the previous execution read
ReadAllowanceCached ==
  /\ pc = "allowance"
  /\ UNCHANGED <<dispatcher, normaliser, wallet, race, history>>
  /\ UNCHANGED <<config, chainAllowance, decimals, atomicAssets, approvalResult, runs>>
  /\ \E ok \in BOOLEAN :
       LET cached == lastRead # None
           value == IF cached THEN lastRead ELSE chainAllowance
       IN /\ calls' = IF cached THEN calls
                      ELSE Append(calls, Call("readContract", "allowance", None, ok))
          /\ IF ok \/ cached
             THEN /\ currentAllowance' = value
                  /\ Goto(IF NeedsApproval(value, atomicAssets)
                          THEN "approveSend" ELSE AfterApproval(op))
             ELSE /\ currentAllowance' = currentAllowance
                  /\ Finish(CatchOutcome(op,
                       CreateError("Failed to fetch allowance from contract",
                                   "CONTRACT_ERROR")), "allowance")

\* allowance(wallet, token, spender) and the comparison that follows it
ReadAllowance ==
  /\ pc = "allowance"
  /\ UNCHANGED <<dispatcher, normaliser, wallet, race, history>>
  /\ UNCHANGED <<config, chainAllowance, decimals, atomicAssets, approvalResult, runs>>
  /\ \E ok \in BOOLEAN :
       /\ calls' = Append(calls, Call("readContract", "allowance", None, ok))
       /\ IF ok
          THEN /\ currentAllowance' = chainAllowance
               /\ Goto(IF NeedsApproval(chainAllowance, atomicAssets)
                       THEN "approveSend" ELSE AfterApproval(op))
          ELSE /\ currentAllowance' = currentAllowance
               /\ Finish(CatchOutcome(op,
                    CreateError("Failed to fetch allowance from contract",
                                "CONTRACT_ERROR")), "allowance")

ApproveSendRetrying ==
  /\ pc = "approveSend"
  /\ UNCHANGED <<dispatcher, normaliser, wallet, race, history>>
  /\ UNCHANGED <<config, chainAllowance, decimals, atomicAssets, currentAllowance, runs>>
  /\ \E ok \in BOOLEAN :
       /\ calls' = Append(calls,
            Call("sendTransaction", "approve", ApproveAmount(atomicAssets), ok))
       /\ approvalResult' = approvalResult
       /\ Goto(IF ok THEN "approveWait" ELSE "approveSend")

\* approve(): wallet.sendTransaction of the approve calldata
ApproveSend ==
  /\ pc = "approveSend"
  /\ UNCHANGED <<dispatcher, normaliser, wallet, race, history>>
  /\ UNCHANGED <<config, chainAllowance, decimals, atomicAssets, currentAllowance, runs>>
  /\ \E ok \in BOOLEAN :
       /\ calls' = Append(calls,
            Call("sendTransaction", "approve", ApproveAmount(atomicAssets), ok))
       /\ IF ok
          THEN /\ approvalResult' = approvalResult
               /\ Goto("approveWait")
          ELSE /\ approvalResult' = "Error"
               /\ Finish(ApprovalFailedOutcome(op), "approve")

\* what wallet.waitForTransactionReceipt can do for the approve transaction:
\* return a receipt of status "success", return a receipt of status
\* "reverted", or throw
ReceiptOutcomes == {"success", "reverted", "throws"}

\* approve(): wallet.waitForTransactionReceipt, then the startsWith("Error")
\* test of the caller.  The receipt is awaited and dropped, its status is
\* not read.  A mined approve sets the allowance on chain, a reverted one
\* leaves it; when the wait throws the transaction may or may not have been
\* mined.
ApproveWait ==
  /\ pc = "approveWait"
  /\ UNCHANGED <<dispatcher, normaliser, wallet, race, history>>
  /\ UNCHANGED <<config, decimals, atomicAssets, currentAllowance, runs>>
  /\ \E receipt \in ReceiptOutcomes :
       /\ calls' = Append(calls,
            Call("waitForTransactionReceipt", "approve", calls[Len(calls)].amount,
                 receipt # "throws"))
       /\ IF receipt # "throws"
          THEN /\ approvalResult' = "Approval successful"
               /\ chainAllowance' = IF receipt = "success"
                                    THEN calls[Len(calls)].amount
                                    ELSE chainAllowance
               /\ Goto(AfterApproval(op))
          ELSE /\ approvalResult' = "Error"
               /\ chainAllowance' \in {chainAllowance, calls[Len(calls)].amount}
               /\ Finish(ApprovalFailedOutcome(op), "approve")

\* sushiSwapModule.getSwap and the status test
GetSwapQuote ==
  /\ pc = "quote"
  /\ UNCHANGED <<dispatcher, normaliser, wallet, race, history>>
  /\ UNCHANGED <<config, chainAllowance, locals, runs>>
  /\ \E r \in {"Success", "NoWay", "throws"} :
       /\ calls' = Append(calls, Call("http", "getSwap", atomicAssets, r # "throws"))
       /\ CASE r = "Success" -> Goto("simulate")
            [] r = "NoWay" ->
                 Finish(CatchOutcome(op,
                   CreateError("Swap quote generation failed", "SWAP_QUOTE_FAILED")),
                   "quote")
            [] OTHER -> Finish(CatchOutcome(op, PlainError("getSwap failed")), "quote")

SimulateSwapIgnoringFailure ==
  /\ pc = "simulate"
  /\ UNCHANGED <<dispatcher, normaliser, wallet, race, history>>
  /\ UNCHANGED <<config, chainAllowance, locals, runs>>
  /\ \E ok \in BOOLEAN :
       /\ calls' = Append(calls, Call("call", "simulate", atomicAssets, ok))
       /\ Goto("send")

\* publicClient.call: the read-only simulation of the prepared transaction
SimulateSwap ==
  /\ pc = "simulate"
  /\ UNCHANGED <<dispatcher, normaliser, wallet, race, history>>
  /\ UNCHANGED <<config, chainAllowance, locals, runs>>
  /\ \E ok \in BOOLEAN :
       /\ calls' = Append(calls, Call("call", "simulate", atomicAssets, ok))
       /\ IF ok THEN Goto("send")
          ELSE Finish(CatchOutcome(op, PlainError("execution reverted")), "simulation")

\* walletProvider.sendTransaction of the main call
SendMain ==
  /\ pc = "send"
  /\ UNCHANGED <<dispatcher, normaliser, wallet, race, history>>
  /\ UNCHANGED <<config, chainAllowance, locals, runs>>
  /\ \E ok \in BOOLEAN :
       /\ calls' = Append(calls, Call("sendTransaction", "main", atomicAssets, ok))
       /\ IF ok THEN Goto("wait")
          ELSE Finish(CatchOutcome(op, PlainError("Transaction sending failed")),
                      "broadcast")

\* walletProvider.waitForTransactionReceipt(txHash) and the return.  When
\* the mined call pulled the tokens, the token contract may have lowered
\* the allowance by the amount (it does not for an unlimited allowance).
WaitMain ==
  /\ pc = "wait"
  /\ UNCHANGED <<dispatcher, normaliser, wallet, race, history>>
  /\ UNCHANGED <<config, locals, runs>>
  /\ \E ok \in BOOLEAN :
       /\ calls' = Append(calls,
            Call("waitForTransactionReceipt", "main", atomicAssets, ok))
       /\ IF ok
          THEN /\ chainAllowance' \in
                    IF /\ op \in ApprovingOps /\ args.tokenIn = "erc20"
                       /\ atomicAssets > 0 /\ chainAllowance >= atomicAssets
                    THEN {chainAllowance, chainAllowance - atomicAssets}
                    ELSE {chainAllowance}
               /\ Finish(SuccessPayload(op), "none")
          ELSE /\ chainAllowance' = chainAllowance
               /\ Finish(CatchOutcome(op, PlainError("receipt not found")),
                         "confirmation")

\* the caller invokes the same action again with the same arguments
Repeat ==
  /\ pc = "done"
  /\ runs < MaxRuns
  /\ runs' = runs + 1
  /\ pc' = "start"
  /\ decimals' = None
  /\ atomicAssets' = None
  /\ currentAllowance' = None
  /\ approvalResult' = "none"
  /\ calls' = <<>>
  /\ outcome' = Running
  /\ failedStep' = "none"
  /\ lastRead' = currentAllowance
  /\ outOfBand' = FALSE
  /\ UNCHANGED <<dispatcher, normaliser, wallet, race>>
  /\ UNCHANGED <<config, chainAllowance>>

\* between two executions the owner, or a contract spending the allowance,
\* changes allowance(wallet, spender) on chain
ChangeAllowanceOutOfBand ==
  /\ pc = "start"
  /\ runs > 1
  /\ ~outOfBand
  /\ op \in ApprovingOps
  /\ args.tokenIn = "erc20"
  /\ chainAllowance' \in InitAllowances \ {chainAllowance}
  /\ outOfBand' = TRUE
  /\ UNCHANGED <<dispatcher, normaliser, wallet, race>>
  /\ UNCHANGED <<config, pc, locals, calls, outcome, failedStep, runs, lastRead>>

Next ==
  \/ Validate
  \/ FetchMarket
  \/ ReadDecimals
  \/ FetchTokenMetadata
  \/ ReadAllowance
  \/ ApproveSend
  \/ ApproveWait
  \/ GetSwapQuote
  \/ SimulateSwap
  \/ SendMain
  \/ WaitMain
  \/ Repeat
  \/ ChangeAllowanceOutOfBand

Spec == Init /\ [][Next]_vars

TypeOK ==
  /\ op \in Ops
  /\ pc \in {"start", "market", "decimals", "metadata", "allowance",
             "approveSend", "approveWait", "quote", "simulate", "send",
             "wait", "done"}
  /\ outcome.kind \in {"none", "returned", "thrown"}
  /\ (pc = "done") = (outcome.kind # "none")

(* ------------------------- views of the log ---------------------------- *)
CallsOf(kind, what) ==
  {i \in 1..Len(calls) : calls[i].kind = kind /\ calls[i].what = what}

ApproveSends == CallsOf("sendTransaction", "approve")
MainSends == CallsOf("sendTransaction", "main")
AllSends == {i \in 1..Len(calls) : calls[i].kind = "sendTransaction"}
ApproveReceipts ==
  {i \in CallsOf("waitForTransactionReceipt", "approve") : calls[i].ok}
FailedCalls == {i \in 1..Len(calls) : ~calls[i].ok}

AllowanceWasRead == currentAllowance # None
Succeeded == outcome.kind = "returned" /\ ~outcome.failure
ThrewCode(code) ==
  /\ outcome.kind = "thrown"
  /\ outcome.err.kind = "CustomError"
  /\ outcome.err.code = code

\* the approving operations that the claims name: the Morpho write logic
\* with an allowance block, and the swap executor
NamedApprovingOps == ApprovingOps \cap (MorphoWriteOps \cup {"executeSwapOnly"})

(* ------------------------------ claims --------------------------------- *)
\* C1: in an execution of an approving write operation whose allowance read
\* is below the required atomic amount, once the approve step has run there
\* is exactly one approve transaction, its amount is the required atomic
\* amount, and every main transaction is sent only after the approve
\* receipt was obtained.
C1_ApproveOnceExactBeforeMain ==
  (/\ op \in ApprovingOps
   /\ AllowanceWasRead
   /\ currentAllowance < atomicAssets
   /\ pc # "approveSend")
  => /\ Cardinality(ApproveSends) = 1
     /\ \A i \in ApproveSends : calls[i].amount = atomicAssets
     /\ \A m \in MainSends :
          \E r \in ApproveReceipts : \E a \in ApproveSends : a < r /\ r < m

C1_Witness ==
  /\ op \in NamedApprovingOps
  /\ AllowanceWasRead
  /\ currentAllowance < atomicAssets
  /\ MainSends # {}
  /\ Cardinality(ApproveSends) = 1
  /\ Succeeded

\* C2 as stated: when the swap simulation throws, sendTransaction was never
\* invoked in that execution, the approval included.
C2_NoSendAtAllWhenSimulationThrows ==
  (IsSwap(op) /\ failedStep = "simulation") => AllSends = {}

\* C2 amended: when the swap simulation throws, the main swap transaction
\* is never sent; the only sendTransaction of the execution is the approve
\* that preceded the simulation, and there is none when the input token is
\* native or the allowance read was sufficient.
C2_NoMainSendWhenSimulationThrows ==
  (IsSwap(op) /\ \E i \in FailedCalls : calls[i].what = "simulate")
  => /\ MainSends = {}
     /\ AllSends = ApproveSends
     /\ Cardinality(ApproveSends) <= 1
     /\ (args.tokenIn = "native" \/ currentAllowance >= atomicAssets
           => AllSends = {})

C2_Witness ==
  /\ IsSwap(op)
  /\ pc = "done"
  /\ failedStep = "simulation"
  /\ ApproveSends # {}
  /\ MainSends = {}

\* C3: in an execution of an approving write operation whose allowance read
\* is at least the required atomic amount no approve transaction is sent,
\* in the first execution and in every repetition.
C3_NoApproveWhenSufficient ==
  (/\ op \in ApprovingOps
   /\ AllowanceWasRead
   /\ currentAllowance >= atomicAssets)
  => ApproveSends = {}

C3_Witness ==
  /\ op \in NamedApprovingOps
  /\ runs > 1
  /\ AllowanceWasRead
  /\ currentAllowance >= atomicAssets
  /\ atomicAssets > 0
  /\ Succeeded
  /\ ApproveSends = {}

\* the first fractional digit that does not fit in d decimals
FirstDroppedDigit(a, d) == IF Len(a.frac) > d THEN a.frac[d + 1] ELSE 0

ConvertedPositiveAmount ==
  /\ IsMorpho(op) \/ IsSwap(op)
  /\ atomicAssets # None
  /\ IsPositive(args.amount)

\* C4 as stated: for a human amount a > 0 and decimals d the atomic amount
\* is floor(a * 10^d), on the Morpho path and on the swap path.
C4_AtomicIsFloor ==
  ConvertedPositiveAmount => atomicAssets = FloorAtomic(args.amount, decimals)

\* C4 amended: the atomic amount is a * 10^d exactly when that is an
\* integer; otherwise it is floor(a * 10^d) or floor(a * 10^d) + 1, and it
\* is rounded up whenever the first dropped fractional digit is 5 or more.
C4_AtomicIsRoundedNotFloored ==
  ConvertedPositiveAmount =>
    LET floor == FloorAtomic(args.amount, decimals)
    IN /\ atomicAssets \in {floor, floor + 1}
       /\ (IsExactAtomic(args.amount, decimals) => atomicAssets = floor)
       /\ (FirstDroppedDigit(args.amount, decimals) >= 5
             => atomicAssets = floor + 1)

C4_Witness ==
  /\ ConvertedPositiveAmount
  /\ ~IsExactAtomic(args.amount, decimals)
  /\ atomicAssets = FloorAtomic(args.amount, decimals) + 1
  /\ MainSends # {}

\* C5: a swap execution whose amount is <= 0 issues no network call and
\* ends by throwing a typed error of code INVALID_INPUT.
C5_SwapRejectsNonPositiveAmount ==
  (IsSwap(op) /\ ~IsPositive(args.amount))
  => /\ calls = <<>>
     /\ (pc = "done" => ThrewCode("INVALID_INPUT"))

\* C6: each of the six Morpho write operations, given an assets amount <= 0,
\* issues no network call and ends with the action throwing a typed error
\* of code INVALID_INPUT.
C6_MorphoRejectsNonPositiveAmount ==
  (op \in MorphoWriteOps /\ ~IsPositive(args.amount))
  => /\ calls = <<>>
     /\ pc \in {"start", "done"}
     /\ (pc = "done" => ThrewCode("INVALID_INPUT") /\ failedStep = "validation")

C6_Witness ==
  /\ op \in MorphoWriteOps
  /\ ~IsPositive(args.amount)
  /\ pc = "done"
  /\ ThrewCode("INVALID_INPUT")
  /\ net.chainId = "747474"

\* C7: when the approve transaction of an approving write operation fails,
\* the operation ends by throwing a typed error of code CONTRACT_ERROR.
C7_ApproveFailureThrowsContractError ==
  (op \in NamedApprovingOps /\ failedStep = "approve")
  => ThrewCode("CONTRACT_ERROR")

\* C8: every public write action ends by returning a success payload or by
\* throwing a typed error; none returns a value that describes a failure.
C8_FailureIsNeverReturned ==
  pc = "done" =>
    \/ Succeeded
    \/ outcome.kind = "thrown" /\ outcome.err.kind = "CustomError"

\* C9: a failed step ends the execution: a failed call is the last call of
\* the execution, a finished execution issues no further call, and the
\* approve and the main transaction are each sent at most once.
C9_Invariant ==
  /\ \A i \in FailedCalls : i = Len(calls) /\ pc = "done"
  /\ (failedStep # "none" => pc = "done")
  /\ Cardinality(ApproveSends) <= 1
  /\ Cardinality(MainSends) <= 1

C9_FailureShortCircuits ==
  /\ []C9_Invariant
  /\ [][pc = "done" => (calls' = calls \/ (runs' = runs + 1 /\ calls' = <<>>))]_vars

C9_Witness ==
  /\ pc = "done"
  /\ failedStep = "approve"
  /\ FailedCalls # {}
  /\ Len(calls) >= 4

\* C10 as stated: every successful write execution, Morpho or swap, returns
\* the token address, the transaction hash and the receipt.
C10_SuccessCarriesAllFields ==
  ((IsMorpho(op) \/ IsSwap(op)) /\ Succeeded)
  => outcome.token /\ outcome.txHash /\ outcome.receipt

OnePointFive == [neg |-> FALSE, int |-> 1, frac |-> <<5>>]

\* C10 amended: every successful Morpho write execution returns the token
\* address, the transaction hash and the receipt, and a successful swap
\* execution returns the transaction hash (without token address or
\* receipt); with 6 decimals, allowance 0 and amount "1.5" the Morpho
\* executor sends approve(spender, 1500000) and then the main call.
C10_SuccessFields ==
  Succeeded =>
    /\ (IsMorpho(op) => outcome.token /\ outcome.txHash /\ outcome.receipt)
    /\ (IsSwap(op) => outcome.txHash /\ ~outcome.token /\ ~outcome.receipt)
    /\ (/\ op \in ApprovingOps /\ IsMorpho(op)
        /\ args.amount = OnePointFive /\ decimals = 6 /\ currentAllowance = 0
        => \E a \in ApproveSends : \E m \in MainSends :
             /\ a < m
             /\ calls[a].amount = 1500000
             /\ calls[m].amount = 1500000)

C10_Witness ==
  /\ Succeeded
  /\ op \in MorphoWriteOps \cap ApprovingOps
  /\ args.amount = OnePointFive
  /\ decimals = 6
  /\ currentAllowance = 0
  /\ outcome.token /\ outcome.txHash /\ outcome.receipt

(* --------------------- claims: pipeline, continued --------------------- *)
MarketReads == CallsOf("readContract", "idToMarketParams")

\* C15 as stated: when a Morpho write operation fails to resolve the market
\* parameters (unknown market id, failing idToMarketParams read, no Morpho
\* contract for the chain) it throws a typed error of code INVALID_INPUT,
\* no later step has run and the read was issued at most once.
C15_MarketFailureIsInvalidInput ==
  (op \in MorphoWriteOps /\ failedStep = "market") =>
    /\ ThrewCode("INVALID_INPUT")
    /\ Cardinality(MarketReads) <= 1
    /\ \A i \in 1..Len(calls) : i \in MarketReads

ApprovalConfirmed == ApproveReceipts # {}

\* C17 as stated: when the approval went through and the main transaction
\* then fails at its broadcast or at its confirmation, what the caller gets
\* carries the transaction hash or the receipt of the completed approval.
C17_PartialFailureCarriesApproval ==
  (ApprovalConfirmed /\ failedStep \in {"broadcast", "confirmation"}) =>
    (outcome.txHash \/ outcome.receipt)

Simulations == CallsOf("call", "simulate")

NetworkMissing ==
  \/ IsSwap(op) /\ (net.chainId = "none" \/ ~net.networkId)
  \/ IsMorpho(op) /\ IsPositive(args.amount) /\ net.chainId = "none"

\* C24: a swap, or a Morpho write operation with a positive amount, on a
\* wallet whose network lacks the chainId (for a swap also: the networkId)
\* ends with a typed error of code INVALID_NETWORK and has issued no HTTP
\* request, no chain read and no transaction, at any point of the run.
C24_MissingNetworkFailsBeforeAnyCall ==
  NetworkMissing =>
    /\ calls = <<>>
    /\ pc \in {"start", "market", "done"}
    /\ pc = "done" => ThrewCode("INVALID_NETWORK")

C24_Witness ==
  /\ op = "withdrawLoanAsset"
  /\ NetworkMissing
  /\ pc = "done"
  /\ failedStep = "market"
  /\ ThrewCode("INVALID_NETWORK")

\* C26 as stated: for a positive human amount, no approve transaction and
\* no main transaction is ever sent for less than 1 atomic unit.
C26_NoTransactionForZeroUnits ==
  IsPositive(args.amount) =>
    \A i \in AllSends : calls[i].amount >= 1

MetadataRequests == CallsOf("http", "tokenMetadata")

\* C30: a swap whose token metadata is missing, or reports 0 decimals,
\* issues the metadata request and nothing else, and ends with a typed
\* error of code TOKEN_METADATA_ERROR; so no swap on a 0-decimals token
\* reaches the allowance read, the approval, the quote, the simulation or a
\* transaction.
C30_NoSwapWithoutDecimals ==
  /\ (IsSwap(op) /\ failedStep = "metadata" /\ (\A i \in MetadataRequests : calls[i].ok))
       => /\ ThrewCode("TOKEN_METADATA_ERROR")
          /\ Len(calls) = 1
  /\ (IsSwap(op) /\ tokenDecimals = 0)
       => /\ \A i \in 1..Len(calls) : i \in MetadataRequests
          /\ ~Succeeded
          /\ pc \in {"start", "metadata", "done"}

C30_Witness ==
  /\ IsSwap(op)
  /\ tokenDecimals = 0
  /\ IsPositive(args.amount)
  /\ ThrewCode("TOKEN_METADATA_ERROR")
  /\ Len(calls) = 1

ApproveCalls == {i \in 1..Len(calls) : calls[i].what = "approve"}

\* the state right after approve() returned "Approval successful"
ApproveJustReturned ==
  /\ calls # <<>>
  /\ Len(calls) \in ApproveReceipts
  /\ approvalResult = "Approval successful"

\* C27 as stated: right after the main transaction of an approving
\* operation on a non-native token has been broadcast, the allowance on
\* chain is at least the required atomic amount, whatever the receipt of the
\* approve transaction recorded.
C27_AllowanceCoversMainTransaction ==
  (/\ op \in ApprovingOps
   /\ args.tokenIn = "erc20"
   /\ pc = "wait")
  => chainAllowance >= atomicAssets

AllowanceReads == {i \in CallsOf("readContract", "allowance") : calls[i].ok}

\* C22: the allowance an execution of an approving operation decides on was
\* read from the contract during that execution: a successful allowance
\* read is in its own call log, the value is the one on chain at the read,
\* also after another party changed it since the previous execution, and an
\* approve is sent exactly when that value is below the required amount.
C22_DecidesOnAllowanceReadInThisExecution ==
  (op \in ApprovingOps /\ AllowanceWasRead) =>
    /\ Cardinality(AllowanceReads) = 1
    /\ Len(calls) \in AllowanceReads => currentAllowance = chainAllowance
    /\ (pc = "approveSend" \/ ApproveSends # {}) <=> currentAllowance < atomicAssets

C22_Witness ==
  /\ op \in NamedApprovingOps
  /\ runs = 2
  /\ outOfBand
  /\ lastRead # None
  /\ lastRead >= atomicAssets
  /\ AllowanceWasRead
  /\ currentAllowance < atomicAssets
  /\ ApproveSends # {}
  /\ Succeeded

(* ======================================================================= *)
(* TensaiKit.getActions: the dispatcher over the action providers          *)
(* ======================================================================= *)
MaxProviders == 3
MaxGetActionsCalls == 2

\* the networks a wallet provider may report
WalletNetworks ==
  { [protocolFamily |-> "evm", networkId |-> "katana-mainnet"],
    [protocolFamily |-> "evm", networkId |-> "ethereum-mainnet"],
    [protocolFamily |-> "svm", networkId |-> "solana-mainnet"] }

MORPHO_SUPPORTED_PROTOCOL ==
  {"polygon-mainnet", "katana-mainnet", "katana-testnet"}

\* three of the repository's providers: name, and the names of its actions
\* in the order provider.getActions(walletProvider) yields them
ProviderNames == {"alchemyTokenPrices", "erc20", "morpho.write_action"}

ProviderActions(name) ==
  CASE name = "alchemyTokenPrices" -> <<"token_prices_by_symbol">>
    [] name = "erc20" -> <<"get_balance", "transfer">>
    [] OTHER -> <<"supply_loan_asset", "withdraw_loan_asset", "repay_loan_asset">>

\* each provider's supportsNetwork predicate
SupportsNetwork(name, network) ==
  CASE name = "alchemyTokenPrices" -> TRUE
    [] name = "erc20" -> network.protocolFamily = "evm"
    [] OTHER -> /\ network.protocolFamily = "evm"
                /\ network.networkId \in MORPHO_SUPPORTED_PROTOCOL

ProviderLists == UNION {[1..n -> ProviderNames] : n \in 0..MaxProviders}

\* the for loop of getActions from provider i on; acc is
\* [actions, unsupportedProviders] as the loop has left them so far
RECURSIVE LoopUnfiltered(_, _, _, _)
LoopUnfiltered(providers, network, i, acc) ==
  IF i > Len(providers) THEN acc
  ELSE LoopUnfiltered(providers, network, i + 1,
         [acc EXCEPT !.actions = @ \o ProviderActions(providers[i])])

RECURSIVE Loop(_, _, _, _)
Loop(providers, network, i, acc) ==
  IF i > Len(providers) THEN acc
  ELSE Loop(providers, network, i + 1,
         IF SupportsNetwork(providers[i], network)
           THEN [acc EXCEPT !.actions = @ \o ProviderActions(providers[i])]
           ELSE [acc EXCEPT !.unsupportedProviders = Append(@, providers[i])])

WarnEntry(names) ==
  [level |-> "warn",
   text |-> <<"Warning: The following action providers are not supported on the current network and will be skipped: ">>
            \o names,
   objects |-> <<>>]

InfoEntry(network) ==
  [level |-> "info", text |-> <<"Current network:">>, objects |-> <<network>>]

\* what getActions writes to the console after the loop
WarningsPerProvider(unsupportedProviders, network) ==
  [i \in 1..Len(unsupportedProviders) |-> WarnEntry(<<unsupportedProviders[i]>>)]
  \o (IF Len(unsupportedProviders) > 0 THEN <<InfoEntry(network)>> ELSE <<>>)

Warnings(unsupportedProviders, network) ==
  IF Len(unsupportedProviders) > 0
    THEN <<WarnEntry(unsupportedProviders), InfoEntry(network)>>
    ELSE <<>>

DispatcherInit ==
  /\ actionProviders \in ProviderLists
  /\ walletNetwork \in WalletNetworks
  /\ actions = <<>>
  /\ console = <<>>
  /\ getActionsCalls = 0

GetActions ==
  /\ getActionsCalls < MaxGetActionsCalls
  /\ LET r == Loop(actionProviders, walletNetwork, 1,
                   [actions |-> <<>>, unsupportedProviders |-> <<>>])
     IN /\ actions' = r.actions
        /\ console' = console \o Warnings(r.unsupportedProviders, walletNetwork)
  /\ getActionsCalls' = getActionsCalls + 1
  /\ UNCHANGED <<actionProviders, walletNetwork>>
  /\ UNCHANGED <<pipeline, normaliser, wallet, race>>

PipelineIdle ==
  /\ op = "transfer"
  /\ args = [amount |-> [neg |-> FALSE, int |-> 0, frac |-> <<>>], tokenIn |-> "erc20"]
  /\ net = [chainId |-> "747474", networkId |-> TRUE]
  /\ tokenDecimals = 0
  /\ chainAllowance = 0
  /\ pc = "start"
  /\ decimals = None
  /\ atomicAssets = None
  /\ currentAllowance = None
  /\ approvalResult = "none"
  /\ calls = <<>>
  /\ outcome = Running
  /\ failedStep = "none"
  /\ runs = 1
  /\ lastRead = None
  /\ outOfBand = FALSE

DispatcherNext == GetActions

DispatcherStart ==
  DispatcherInit /\ PipelineIdle /\ NormaliserIdle /\ WalletIdle /\ RaceIdle

DispatcherSpec == DispatcherStart /\ [][DispatcherNext]_vars

(* ------------------------ claims: dispatcher --------------------------- *)
SupportedIndices ==
  {i \in 1..Len(actionProviders) : SupportsNetwork(actionProviders[i], walletNetwork)}
SkippedIndices == (1..Len(actionProviders)) \ SupportedIndices
SkippedNames == {actionProviders[i] : i \in SkippedIndices}

\* number of actions contributed by the supporting providers before provider i
OffsetOf(i) ==
  LET before == {j \in SupportedIndices : j < i}
      RECURSIVE Sum(_)
      Sum(S) == IF S = {} THEN 0
                ELSE LET j == CHOOSE x \in S : TRUE
                     IN Len(ProviderActions(actionProviders[j])) + Sum(S \ {j})
  IN Sum(before)

WarnEntries == {i \in 1..Len(console) : console[i].level = "warn"}
InfoEntries == {i \in 1..Len(console) : console[i].level = "info"}
NamesIn(entry) == {entry.text[k] : k \in 2..Len(entry.text)}

\* C11: after getActions, the returned array is exactly the actions of the
\* supporting providers, provider by provider in list order and each
\* provider's actions in its own order; nothing of a provider whose
\* supportsNetwork is false is in it.
C11_ActionsAreSupportedConcatenation ==
  getActionsCalls > 0 =>
    /\ Len(actions) = OffsetOf(Len(actionProviders) + 1)
    /\ \A i \in SupportedIndices :
         \A k \in 1..Len(ProviderActions(actionProviders[i])) :
           actions[OffsetOf(i) + k] = ProviderActions(actionProviders[i])[k]

\* P1 = morpho.write_action (katana only) listed before P2 =
\* alchemyTokenPrices (all networks), on a network P1 does not support
C11_Witness ==
  /\ getActionsCalls > 0
  /\ actionProviders = <<"morpho.write_action", "alchemyTokenPrices">>
  /\ walletNetwork.networkId = "ethereum-mainnet"
  /\ actions = <<"token_prices_by_symbol">>

ErrorMessages == {"", "boom", "Amount must be greater than 0"}
ErrorCodes == {"INVALID_INPUT", "CONTRACT_ERROR", "UNKNOWN_ERROR"}

CustomErrors ==
  {CreateError(m, c) : m \in ErrorMessages, c \in ErrorCodes}
  \cup {HandleError("Error fetching token metadata", PlainError("boom"))}

PlainErrors == {PlainError(m) : m \in ErrorMessages}

Primitives ==
  {Primitive("string", v) : v \in {"", "boom", "undefined", "null", "5"}}
  \cup {Primitive("number", v) : v \in {"0", "5", "-1", "NaN"}}
  \cup {Primitive("bigint", "10"), Primitive("null", "null"), Undefined}

Objects ==
  { Object(<<>>),
    Object(<<[key |-> "reason", val |-> Primitive("string", "boom")]>>),
    Object(<<[key |-> "reason", val |-> Undefined]>>),
    Object(<<[key |-> "amount", val |-> Primitive("bigint", "10")]>>),
    Object(<<[key |-> "self", val |-> [kind |-> "circular"]]>>),
    Object(<<[key |-> "code", val |-> Primitive("number", "5")],
             [key |-> "reason", val |-> Primitive("string", "boom")]>>) }

NonErrorValues == Primitives \cup Objects
CaughtValues == CustomErrors \cup PlainErrors \cup NonErrorValues

Contexts == {LogicCtx(o) : o \in MorphoWriteOps} \cup {MarketCtx}
OuterContexts == {ActionCtx(o) : o \in MorphoWriteOps}

NormaliserInit ==
  /\ caught \in CaughtValues
  /\ context \in Contexts
  /\ normalised = [type |-> "none"]
  /\ outerContext \in OuterContexts
  /\ renormalised = [type |-> "none"]

\* catch (error) { throw handleError(context, error) }
Normalise ==
  /\ normalised.type = "none"
  /\ normalised' =
       [type |-> IF HandleErrorThrows(caught) THEN "threw" ELSE "returned",
        error |-> HandleError(context, caught)]
  /\ UNCHANGED <<caught, context, outerContext, renormalised>>
  /\ UNCHANGED <<pipeline, dispatcher, wallet, race>>

\* the catch block of the action around the logic function: it receives
\* what the inner catch block threw, the error handleError returned or the
\* TypeError handleError itself raised, and throws handleError of it
Renormalise ==
  /\ normalised.type # "none"
  /\ renormalised.type = "none"
  /\ renormalised' =
       [type |-> IF HandleErrorThrows(normalised.error) THEN "threw" ELSE "returned",
        error |-> HandleError(outerContext, normalised.error)]
  /\ UNCHANGED <<caught, context, normalised, outerContext>>
  /\ UNCHANGED <<pipeline, dispatcher, wallet, race>>

NormaliserNext == Normalise \/ Renormalise

NormaliserStart ==
  NormaliserInit /\ PipelineIdle /\ DispatcherIdle /\ WalletIdle /\ RaceIdle

NormaliserSpec == NormaliserStart /\ [][NormaliserNext]_vars

(* ------------------------ claims: handleError -------------------------- *)
Normalised == normalised.type # "none"

\* C13: handleError given a CustomError returns that very error: same
\* code, same message parts, no context put in front.
C13_TypedErrorPassesThrough ==
  (Normalised /\ caught.kind = "CustomError") =>
    /\ normalised.type = "returned"
    /\ normalised.error.kind = "CustomError"
    /\ normalised.error.code = caught.code
    /\ normalised.error.msg = caught.msg

C13_Witness ==
  /\ Normalised
  /\ caught = CreateError("Amount must be greater than 0", "INVALID_INPUT")
  /\ context = MarketCtx
  /\ normalised.error.code = "INVALID_INPUT"

\* C14 as stated: handleError given anything but a CustomError returns,
\* never throws, a CustomError with a code and a non-empty message; for an
\* Error the message is "<context>: <its message>" with code UNKNOWN_ERROR;
\* for any other value the message tells the value apart from every other
\* non-Error value.
C14_UntypedValueIsWrappedLosslessly ==
  (Normalised /\ caught.kind # "CustomError") =>
    /\ normalised.type = "returned"
    /\ normalised.error.kind = "CustomError"
    /\ normalised.error.code # ""
    /\ normalised.error.msg # <<>>
    /\ caught.kind = "Error" =>
         /\ normalised.error.msg = <<context>> \o caught.msg
         /\ normalised.error.code = "UNKNOWN_ERROR"
    /\ caught.kind # "Error" =>
         \A w \in NonErrorValues \ {caught} :
           ~JsonThrows(w) => <<context>> \o TemplateText(w) # normalised.error.msg

Renormalised == renormalised.type # "none"

\* C29 as stated: for every thrown value the enclosing catch block throws
\* exactly what the inner one made of it, handleError(m2, handleError(m1, e))
\* = handleError(m1, e); and a typed error reaches the caller of the action
\* with the code and the message it was raised with.
C29_NestedNormalisationIsIdempotent ==
  Renormalised =>
    /\ renormalised.type = "returned"
    /\ renormalised.error = normalised.error
    /\ caught.kind = "CustomError" => renormalised.error = caught

(* ======================================================================= *)
(* PrivyEvmDelegatedEmbeddedWalletProvider: the remote signer wallet       *)
(* ======================================================================= *)
\* a JSON value: a leaf (a string or number, by its text) or an object
\* whose members keep the order in which the object was built
Leaf(text) == [leaf |-> TRUE, text |-> text, members |-> <<>>]
Node(members) == [leaf |-> FALSE, text |-> "", members |-> members]
Member(key, val) == [key |-> key, val |-> val]

\* the keys that occur, in ascending order of their UTF-16 code units
KeyOrder ==
  <<"address", "body", "caip2", "chain_id", "chain_type", "data", "encoding",
    "from", "headers", "message", "method", "params", "primaryType",
    "privy-app-id", "to", "transaction", "url", "value", "version">>

RankOf ==
  [key \in {KeyOrder[i] : i \in 1..Len(KeyOrder)} |->
     CHOOSE i \in 1..Len(KeyOrder) : KeyOrder[i] = key]

Rank(key) == RankOf[key]

\* Object.keys(object).sort(): the members by ascending key
RECURSIVE SortMembers(_)
SortMembers(members) ==
  IF members = <<>> THEN <<>>
  ELSE LET m == CHOOSE i \in 1..Len(members) :
                  \A j \in 1..Len(members) : Rank(members[i].key) <= Rank(members[j].key)
           rest == [k \in 1..(Len(members) - 1) |->
                      IF k < m THEN members[k] ELSE members[k + 1]]
       IN <<members[m]>> \o SortMembers(rest)

\* the text of a JSON value, members taken in the order given by `order`
RECURSIVE SerializeWith(_, _)
SerializeMembers(members, order) ==
  LET RECURSIVE From(_)
      From(i) ==
        IF i > Len(members) THEN <<>>
        ELSE (IF i = 1 THEN <<>> ELSE <<",">>)
             \o <<members[i].key, ":">> \o SerializeWith(members[i].val, order)
             \o From(i + 1)
  IN From(1)

SerializeWith(v, order) ==
  IF v.leaf THEN <<v.text>>
  ELSE <<"{">>
       \o SerializeMembers(IF order = "sorted" THEN SortMembers(v.members)
                           ELSE v.members, order)
       \o <<"}">>

\* JSON.stringify: members in insertion order
Stringify(v) == SerializeWith(v, "insertion")

\* canonicalize (RFC 8785): members sorted by key at every level
Canonicalize(v) == SerializeWith(v, "sorted")

PRIVY_URL == "https://api.privy.io/v1/wallets/rpc"
AppId == "app-1"

\* the payload generatePrivySignature serialises and signs
SignaturePayload(url, body, appId) ==
  Node(<<Member("version", Leaf("1")),
         Member("method", Leaf("POST")),
         Member("url", Leaf(url)),
         Member("body", body),
         Member("headers", Node(<<Member("privy-app-id", Leaf(appId))>>))>>)

\* crypto.sign("sha256", bytes, privateKey): the signature over bytes; an
\* EC key (ECDSA) draws a fresh nonce for each signature, an RSA key
\* (PKCS#1 v1.5) does not
Nonces(key) == IF key.scheme = "ec" THEN {"k1", "k2"} ELSE {"none"}
CryptoSign(bytes, key, nonce) == [over |-> bytes, key |-> key.id, nonce |-> nonce]

\* one run of generatePrivySignature, as recorded
SignatureRun(url, body, appId, key, nonce) ==
  [url |-> url, body |-> body, appId |-> appId, key |-> key,
   signature |-> CryptoSign(Canonicalize(SignaturePayload(url, body, appId)),
                            key, nonce)]


(* ---- construction ---- *)
AuthKeys ==
  { [id |-> "key-ec", scheme |-> "ec"],
    [id |-> "key-rsa", scheme |-> "rsa"],
    [id |-> "key-bad", scheme |-> "invalid"] }

\* PrivyEvmDelegatedEmbeddedWalletConfig plus the resolved address; "" is
\* an option left out
WalletConfigs ==
  [address : {"0xA11CE", "0xB0B"},
   networkId : {"", "katana-mainnet"},
   chainId : {"", "747474"},
   authorizationPrivateKey : AuthKeys]

NETWORK_ID_TO_CHAIN_ID(networkId) ==
  IF networkId = "katana-network" THEN "129399" ELSE ""

\* the ids getChain finds among viem's chains
ViemChainIds == {"1", "129399", "747474"}

\* the #network the constructor stores
ConstructNetwork(cfg) ==
  LET networkId == IF cfg.networkId = "" THEN "katana-network" ELSE cfg.networkId
      chainId == IF cfg.chainId # "" THEN cfg.chainId
                 ELSE NETWORK_ID_TO_CHAIN_ID(networkId)
  IN [protocolFamily |-> "evm", networkId |-> networkId, chainId |-> chainId]

\* the constructor throws when getChain has no chain for the id
Constructible(cfg) == ConstructNetwork(cfg).chainId \in ViemChainIds

NoResult == [by |-> "none", kind |-> "none", value |-> "", msg |-> <<>>]
Returned(by, value) == [by |-> by, kind |-> "returned", value |-> value, msg |-> <<>>]
Threw(by, msg) == [by |-> by, kind |-> "threw", value |-> "", msg |-> msg]

WalletInit ==
  \E cfg \in WalletConfigs :
    /\ Constructible(cfg)
    /\ address = cfg.address
    /\ privyNetwork = ConstructNetwork(cfg)
    /\ authKey = cfg.authorizationPrivateKey
    /\ constructed = [address |-> cfg.address, network |-> ConstructNetwork(cfg)]
    /\ requests = <<>>
    /\ result = NoResult
    /\ signed = <<>>

(* ---- the remote signer's answers ---- *)
\* the JSON of a 2xx answer, relative to the field the method answers with
\* (signature, signed_transaction, hash):
\*   wrapped       {method, data: {<field>: ...}}
\*   wrappedEmpty  {method, data: {}}
\*   bare          {<field>: ...}
\*   empty         {}
\*   notJson       a body response.json() rejects
JsonShapes == {"wrapped", "wrappedEmpty", "bare", "empty", "notJson"}

Responses ==
  {[fetch |-> "rejects", ok |-> FALSE, json |-> "none"],
   [fetch |-> "resolves", ok |-> FALSE, json |-> "none"]}
  \cup {[fetch |-> "resolves", ok |-> TRUE, json |-> j] : j \in JsonShapes}

\* executePrivyRequest once the headers are built: what it throws or returns
ExecutePrivyRequest(response) ==
  IF response.fetch = "rejects"
    THEN [threw |-> TRUE, msg |-> <<"Privy request failed", "fetch failed">>, json |-> "none"]
  ELSE IF ~response.ok
    THEN [threw |-> TRUE, msg |-> <<"Privy request failed", "HTTP error! status">>,
          json |-> "none"]
  ELSE IF response.json = "notJson"
    THEN [threw |-> TRUE, msg |-> <<"Privy request failed", "Unexpected token">>,
          json |-> "none"]
  ELSE [threw |-> FALSE, msg |-> <<>>, json |-> response.json]

(* ---- request bodies ---- *)
\* the method each operation puts in its request body
RpcMethodBroadcasting(by) ==
  CASE by = "signMessage" -> "personal_sign"
    [] by = "signTypedData" -> "eth_signTypedData_v4"
    [] OTHER -> "eth_sendTransaction"

RpcMethod(by) ==
  CASE by = "signMessage" -> "personal_sign"
    [] by = "signTypedData" -> "eth_signTypedData_v4"
    [] by = "signTransaction" -> "eth_signTransaction"
    [] OTHER -> "eth_sendTransaction"

\* a TransactionRequest as the caller built it: the same two fields in
\* either order
Transactions ==
  { <<Member("to", Leaf("0xC0FFEE")), Member("data", Leaf("0x01"))>>,
    <<Member("data", Leaf("0x01")), Member("to", Leaf("0xC0FFEE"))>> }

\* caip2: `eip155:${chainId}`
Caip2 == Member("caip2", Leaf(privyNetwork.chainId))

RequestBody(by, tx) ==
  CASE by = "signMessage" ->
         Node(<<Member("address", Leaf(address)),
                Member("chain_type", Leaf("ethereum")),
                Member("method", Leaf(RpcMethod(by))),
                Member("params", Node(<<Member("message", Leaf("hello")),
                                        Member("encoding", Leaf("utf-8"))>>))>>)
    [] by = "signTypedData" ->
         Node(<<Member("method", Leaf(RpcMethod(by))),
                Member("params", Node(<<Member("address", Leaf(address)),
                                        Member("chain_type", Leaf("ethereum")),
                                        Member("chain_id", Leaf(privyNetwork.chainId)),
                                        Member("primaryType", Leaf("Permit")),
                                        Member("message", Leaf("permit"))>>))>>)
    [] by = "signTransaction" ->
         Node(<<Member("address", Leaf(address)),
                Member("chain_type", Leaf("ethereum")),
                Member("method", Leaf(RpcMethod(by))),
                Member("params", Node(<<Member("transaction",
                   Node(tx \o <<Member("from", Leaf(address))>>))>>))>>)
    [] by = "sendTransaction" ->
         Node(<<Member("address", Leaf(address)),
                Member("chain_type", Leaf("ethereum")),
                Member("method", Leaf(RpcMethod(by))),
                Caip2,
                Member("params", Node(<<Member("transaction",
                   Node(tx \o <<Member("from", Leaf(address))>>))>>))>>)
    [] OTHER ->
         Node(<<Member("address", Leaf(address)),
                Member("chain_type", Leaf("ethereum")),
                Member("method", Leaf(RpcMethod(by))),
                Caip2,
                Member("params", Node(<<Member("transaction",
                   Node(<<Member("to", Leaf("0xC0FFEE")),
                          Member("value", Leaf("0xde0b6b3a7640000"))>>))>>))>>)

\* a request as issued, with the answer it got
PrivyRequest(by, response) ==
  [target |-> "privy", method |-> RpcMethod(by), answer |-> response]
PublicRequest(method, ok) ==
  [target |-> "publicClient", method |-> method,
   answer |-> [fetch |-> IF ok THEN "resolves" ELSE "rejects", ok |-> ok,
               json |-> "none"]]

(* ---- operations ---- *)
\* what the operation reads out of a parsed answer: response.data?.<field>
\* (signMessage, signTransaction, sendTransaction), response.signature
\* (signTypedData)
FieldValue(by) ==
  CASE by \in {"signMessage", "signTypedData"} -> "0xsignature"
    [] by = "signTransaction" -> "0xsigned"
    [] OTHER -> "0xhash"

Extract(by, json) ==
  IF by = "signTypedData"
    THEN (IF json = "bare" THEN FieldValue(by) ELSE "undefined")
    ELSE (IF json = "wrapped" THEN FieldValue(by) ELSE "undefined")

\* crypto.createPrivateKey rejects the key: getPrivyHeaders throws before
\* fetch is called
SignatureFails == authKey.scheme = "invalid"

PrivyCall(response) ==
  IF SignatureFails
    THEN [threw |-> TRUE,
          msg |-> <<"Error generating Privy authorization signature">>,
          json |-> "none"]
    ELSE ExecutePrivyRequest(response)

Signs(run) ==
  /\ signed' = IF SignatureFails THEN <<>> ELSE <<run>>
  /\ UNCHANGED <<address, privyNetwork, authKey, constructed>>
  /\ UNCHANGED <<pipeline, dispatcher, normaliser, race>>

Reads ==
  /\ signed' = <<>>
  /\ UNCHANGED <<address, privyNetwork, authKey, constructed>>
  /\ UNCHANGED <<pipeline, dispatcher, normaliser, race>>

\* body, executePrivyRequest, return of the field or rethrow with a prefix
RemoteOperation(by, tx, prefix) ==
  \E nonce \in Nonces(authKey) :
    LET run == SignatureRun(PRIVY_URL, RequestBody(by, tx), AppId, authKey, nonce)
    IN \E response \in Responses :
         /\ Signs(run)
         /\ requests' = IF SignatureFails THEN <<>>
                        ELSE <<PrivyRequest(by, response)>>
         /\ LET r == PrivyCall(response)
            IN result' = IF r.threw THEN Threw(by, <<prefix>> \o r.msg)
                         ELSE Returned(by, Extract(by, r.json))

SignMessage == RemoteOperation("signMessage", <<>>, "Message signing failed")

SignTypedData == RemoteOperation("signTypedData", <<>>, "Typed data signing failed")

SignTransaction ==
  \E tx \in Transactions :
    RemoteOperation("signTransaction", tx, "Transaction signing failed")

SendTransaction ==
  \E tx \in Transactions :
    RemoteOperation("sendTransaction", tx, "Transaction sending failed")

NativeTransfer ==
  \E nonce \in Nonces(authKey) :
  LET by == "nativeTransfer"
      prefix == "Native transfer failed"
      run == SignatureRun(PRIVY_URL, RequestBody(by, <<>>), AppId, authKey, nonce)
  IN
  \E response \in Responses :
  \E receipt \in IF ~SignatureFails /\ response.json = "wrapped"
                  THEN {"receipt", "falsy", "throws"} ELSE {"throws"} :
    LET r == PrivyCall(response)
        waits == ~r.threw /\ r.json \in {"wrapped", "wrappedEmpty"}
    IN /\ Signs(run)
       /\ requests' =
            (IF SignatureFails THEN <<>> ELSE <<PrivyRequest(by, response)>>)
            \o (IF waits
                  THEN <<PublicRequest("waitForTransactionReceipt",
                                       r.json = "wrapped" /\ receipt # "throws")>>
                  ELSE <<>>)
       /\ result' =
            IF r.threw THEN Threw(by, <<prefix>> \o r.msg)
            ELSE IF r.json \in {"bare", "empty"}
              \* response.data is undefined: reading .hash is a TypeError
              THEN Threw(by, <<prefix, "Cannot read properties of undefined">>)
            ELSE IF r.json = "wrappedEmpty" \/ receipt = "throws"
              \* no receipt is found for an undefined hash
              THEN Threw(by, <<prefix, "waitForTransactionReceipt failed">>)
            ELSE IF receipt = "falsy"
              THEN Threw(by, <<prefix, "Transaction failed">>)
            ELSE Returned(by, FieldValue(by))

GetBalance ==
  \E ok \in BOOLEAN :
    /\ Reads
    /\ requests' = <<PublicRequest("getBalance", ok)>>
    /\ result' = IF ok THEN Returned("getBalance", "balance")
                 ELSE Threw("getBalance", <<"Error getting balance", "rpc failed">>)

ReadContract ==
  \E ok \in BOOLEAN :
    /\ Reads
    /\ requests' = <<PublicRequest("readContract", ok)>>
    /\ result' = IF ok THEN Returned("readContract", "data")
                 ELSE Threw("readContract", <<"rpc failed">>)

WaitForTransactionReceipt ==
  \E ok \in BOOLEAN :
    /\ Reads
    /\ requests' = <<PublicRequest("waitForTransactionReceipt", ok)>>
    /\ result' = IF ok THEN Returned("waitForTransactionReceipt", "receipt")
                 ELSE Threw("waitForTransactionReceipt", <<"rpc failed">>)

GetNetworkDefault ==
  [protocolFamily |-> "evm", networkId |-> "katana-network", chainId |-> "129399"]

GetNetwork == privyNetwork

GetAddress == address

\* the getters: synchronous, they issue nothing and sign nothing
Gets ==
  /\ UNCHANGED <<address, privyNetwork, authKey, constructed, requests, signed>>
  /\ UNCHANGED <<pipeline, dispatcher, normaliser, race>>

ReadAddress ==
  /\ Gets
  /\ result' = Returned("getAddress", GetAddress)

ReadNetwork ==
  /\ Gets
  /\ result' = Returned("getNetwork", GetNetwork)

WalletNext ==
  \/ SignMessage
  \/ SignTypedData
  \/ SignTransaction
  \/ SendTransaction
  \/ NativeTransfer
  \/ GetBalance
  \/ ReadContract
  \/ WaitForTransactionReceipt
  \/ ReadAddress
  \/ ReadNetwork

WalletStart ==
  WalletInit /\ PipelineIdle /\ DispatcherIdle /\ NormaliserIdle /\ RaceIdle

WalletSpec == WalletStart /\ [][WalletNext]_vars

(* -------------------------- claims: wallet ----------------------------- *)
RemoteOperations ==
  {"signMessage", "signTypedData", "signTransaction", "sendTransaction",
   "nativeTransfer"}
SigningOperations == {"signMessage", "signTypedData", "signTransaction"}

\* the signer answered with a non-2xx status, or with a 2xx JSON that
\* holds the expected field nowhere
Malformed(answer) ==
  /\ answer.fetch = "resolves"
  /\ (~answer.ok \/ answer.json \in {"wrappedEmpty", "empty"})

AnsweredMalformed ==
  /\ result.by \in RemoteOperations
  /\ requests # <<>>
  /\ Malformed(requests[1].answer)

\* C16 as stated: a signing or sending operation whose remote answer is
\* non-2xx, or 2xx without the expected payload field, ends by throwing;
\* it never returns a value.
C16_MalformedAnswerFails ==
  AnsweredMalformed => result.kind = "threw"

\* C18: a signMessage, signTypedData or signTransaction call issues one
\* request at most, to the remote signer, with a signing method; never
\* eth_sendTransaction and never a request to the chain.
C18_SigningNeverBroadcasts ==
  result.by \in SigningOperations =>
    /\ Len(requests) <= 1
    /\ \A i \in 1..Len(requests) :
         /\ requests[i].target = "privy"
         /\ requests[i].method \in
              {"personal_sign", "eth_signTypedData_v4", "eth_signTransaction"}

C18_Witness ==
  /\ result = Returned("signTransaction", "0xsigned")
  /\ Len(requests) = 1
  /\ requests[1].method = "eth_signTransaction"

\* C19: whatever operations have run, successful or failed, the instance
\* holds the address and the network its constructor stored, and
\* getAddress() / getNetwork() return exactly those.
C19_AddressAndNetworkAreFixed ==
  /\ address = constructed.address
  /\ privyNetwork = constructed.network
  /\ result.by = "getAddress" => result.value = constructed.address
  /\ result.by = "getNetwork" => result.value = constructed.network

\* getNetwork() after a sendTransaction that the signer refused, on an
\* instance built with chain id 747474
C19_Witness ==
  /\ result.by = "getNetwork"
  /\ result.value.chainId = "747474"
  /\ Len(requests) = 1
  /\ requests[1].method = "eth_sendTransaction"
  /\ ~requests[1].answer.ok

TopLevelKeys(body) == {body.members[i].key : i \in 1..Len(body.members)}
TopLevelText(body, key) ==
  LET at == CHOOSE i \in 1..Len(body.members) : body.members[i].key = key
  IN body.members[at].val.text

\* C25 as stated: every body the wallet posts to the remote signer, for
\* each of the five operations, has address, chain_type, method and params
\* as top-level fields, with method one of the four RPC method names.
C25_BodyCarriesFourTopLevelFields ==
  \A i \in 1..Len(signed) :
    /\ {"address", "chain_type", "method", "params"} \subseteq TopLevelKeys(signed[i].body)
    /\ TopLevelText(signed[i].body, "method") \in
         {"personal_sign", "eth_signTypedData_v4", "eth_signTransaction",
          "eth_sendTransaction"}

(* ======================================================================= *)
(* generatePrivySignature run repeatedly on one instance                   *)
(* ======================================================================= *)
MaxSignatureRuns == 2

\* generatePrivySignature(url, body) for the body of some operation
GeneratePrivySignature ==
  /\ Len(signed) < MaxSignatureRuns
  /\ ~SignatureFails
  /\ \E by \in {"signMessage", "signTypedData", "signTransaction",
                "sendTransaction", "nativeTransfer"},
        tx \in Transactions, nonce \in Nonces(authKey) :
       signed' = Append(signed, SignatureRun(PRIVY_URL, RequestBody(by, tx),
                                             AppId, authKey, nonce))
  /\ UNCHANGED <<address, privyNetwork, authKey, constructed, requests, result>>
  /\ UNCHANGED <<pipeline, dispatcher, normaliser, race>>

SigningNext == GeneratePrivySignature

SigningSpec == WalletStart /\ [][SigningNext]_vars

(* ------------------------- claims: signing ----------------------------- *)
\* the same JSON value, whatever the order of the members of its objects
RECURSIVE EqualUpToOrder(_, _)
EqualUpToOrder(a, b) ==
  IF a.leaf \/ b.leaf THEN a = b
  ELSE /\ Len(a.members) = Len(b.members)
       /\ \A i \in 1..Len(a.members) :
            \E j \in 1..Len(b.members) :
              /\ a.members[i].key = b.members[j].key
              /\ EqualUpToOrder(a.members[i].val, b.members[j].val)

SameInput(r1, r2) ==
  /\ r1.url = r2.url
  /\ r1.appId = r2.appId
  /\ r1.key = r2.key
  /\ EqualUpToOrder(r1.body, r2.body)

\* C20 as stated: two runs with the same url, body (in any key order), app
\* id and key give the same signature bytes.
C20_SameInputSameSignature ==
  \A i, j \in 1..Len(signed) :
    SameInput(signed[i], signed[j]) => signed[i].signature = signed[j].signature

\* C20 (amended): two runs with the same url, body (in any key order), app
\* id and key sign the same canonical bytes; the signature bytes are the
\* same when the key's scheme draws no nonce (RSA), and need not be with an
\* EC key.
C20_SameInputSameSignedBytes ==
  \A i, j \in 1..Len(signed) :
    SameInput(signed[i], signed[j]) =>
      /\ signed[i].signature.over = signed[j].signature.over
      /\ signed[i].key.scheme # "ec" => signed[i].signature = signed[j].signature

\* the same transaction with its fields in the two orders, signed with the
\* EC key: same signed bytes, different signatures
C20_Witness ==
  /\ Len(signed) = 2
  /\ signed[1].body # signed[2].body
  /\ SameInput(signed[1], signed[2])
  /\ signed[1].key.scheme = "ec"
  /\ signed[1].signature.over = signed[2].signature.over
  /\ signed[1].signature # signed[2].signature

(* ======================================================================= *)
(* two executions of writeSupplyLoanToken in flight at the same time       *)
(* ======================================================================= *)
\* the atomic amounts the two executions ask for
RaceAmounts == {150, 200}

RaceInit ==
  /\ raceAllowance \in InitAllowances
  /\ raceRequired \in [Executions -> RaceAmounts]
  /\ racePc = [e \in Executions |-> "allowance"]
  /\ raceRead = [e \in Executions |-> None]
  /\ raceSends = <<>>

Sent(e, what, amount) == [by |-> e, what |-> what, amount |-> amount]

RaceGoto(e, p) == racePc' = [racePc EXCEPT ![e] = p]

\* an allowance step that waits until no other execution is between its
\* allowance read and its end
RaceReadAllowanceSerialized(e) ==
  /\ racePc[e] = "allowance"
  /\ \A o \in Executions \ {e} : racePc[o] \in {"allowance", "done", "failed"}
  /\ raceRead' = [raceRead EXCEPT ![e] = raceAllowance]
  /\ RaceGoto(e, IF NeedsApproval(raceAllowance, raceRequired[e])
                 THEN "approveSend" ELSE "send")
  /\ UNCHANGED <<raceAllowance, raceRequired, raceSends>>
  /\ UNCHANGED <<pipeline, dispatcher, normaliser, wallet>>

\* await allowance(...) and if (currentAllowance < atomicAssets)
RaceReadAllowance(e) ==
  /\ racePc[e] = "allowance"
  /\ raceRead' = [raceRead EXCEPT ![e] = raceAllowance]
  /\ RaceGoto(e, IF NeedsApproval(raceAllowance, raceRequired[e])
                 THEN "approveSend" ELSE "send")
  /\ UNCHANGED <<raceAllowance, raceRequired, raceSends>>
  /\ UNCHANGED <<pipeline, dispatcher, normaliser, wallet>>

\* approve(): wallet.sendTransaction of the approve call
RaceApproveSend(e) ==
  /\ racePc[e] = "approveSend"
  /\ \E ok \in BOOLEAN :
       /\ raceSends' = IF ok
                       THEN Append(raceSends,
                              Sent(e, "approve", ApproveAmount(raceRequired[e])))
                       ELSE raceSends
       /\ RaceGoto(e, IF ok THEN "approveWait" ELSE "failed")
  /\ UNCHANGED <<raceAllowance, raceRequired, raceRead>>
  /\ UNCHANGED <<pipeline, dispatcher, normaliser, wallet>>

\* approve(): wallet.waitForTransactionReceipt and the startsWith("Error")
\* test; a mined approve overwrites the allowance on chain
RaceApproveWait(e) ==
  /\ racePc[e] = "approveWait"
  /\ \E receipt \in ReceiptOutcomes :
       /\ raceAllowance' = IF receipt = "success"
                           THEN ApproveAmount(raceRequired[e])
                           ELSE raceAllowance
       /\ RaceGoto(e, IF receipt = "throws" THEN "failed" ELSE "send")
  /\ UNCHANGED <<raceRequired, raceRead, raceSends>>
  /\ UNCHANGED <<pipeline, dispatcher, normaliser, wallet>>

\* walletProvider.sendTransaction of the supply call
RaceSendMain(e) ==
  /\ racePc[e] = "send"
  /\ \E ok \in BOOLEAN :
       /\ raceSends' = IF ok
                       THEN Append(raceSends, Sent(e, "main", raceRequired[e]))
                       ELSE raceSends
       /\ RaceGoto(e, IF ok THEN "wait" ELSE "failed")
  /\ UNCHANGED <<raceAllowance, raceRequired, raceRead>>
  /\ UNCHANGED <<pipeline, dispatcher, normaliser, wallet>>

\* walletProvider.waitForTransactionReceipt of the supply call: mined, it
\* pulled the tokens and used up the allowance when that covered the
\* amount, and reverted otherwise
RaceWaitMain(e) ==
  /\ racePc[e] = "wait"
  /\ \E ok \in BOOLEAN :
       /\ raceAllowance' = IF ok /\ raceAllowance >= raceRequired[e]
                           THEN raceAllowance - raceRequired[e]
                           ELSE raceAllowance
       /\ RaceGoto(e, IF ok THEN "done" ELSE "failed")
  /\ UNCHANGED <<raceRequired, raceRead, raceSends>>
  /\ UNCHANGED <<pipeline, dispatcher, normaliser, wallet>>

RaceStep(e) ==
  \/ RaceReadAllowance(e)
  \/ RaceApproveSend(e)
  \/ RaceApproveWait(e)
  \/ RaceSendMain(e)
  \/ RaceWaitMain(e)

RaceNext == \E e \in Executions : RaceStep(e)

RaceStart ==
  RaceInit /\ PipelineIdle /\ DispatcherIdle /\ NormaliserIdle /\ WalletIdle

RaceSpec == RaceStart /\ [][RaceNext]_vars

(* ---------------------- claims: two executions ------------------------- *)
ApprovesBy(e) ==
  {i \in 1..Len(raceSends) : raceSends[i].by = e /\ raceSends[i].what = "approve"}

ReadInsufficient(e) == raceRead[e] # None /\ raceRead[e] < raceRequired[e]

\* C23: two executions from the same wallet on the same token and spender
\* are not serialized.  No step of an unfinished execution ever waits for
\* the other execution, wherever that one is; and an execution that read an
\* insufficient allowance submits its own approve whatever the other has
\* read or submitted, so both do when both read an insufficient allowance.
C23_ExecutionsAreNotSerialized ==
  \A e \in Executions :
    /\ racePc[e] \notin {"done", "failed"} => ENABLED RaceStep(e)
    /\ (ReadInsufficient(e) /\ racePc[e] \in {"approveWait", "send", "wait", "done"})
         => Cardinality(ApprovesBy(e)) = 1

\* both executions have read an insufficient allowance and both approve
\* transactions are submitted, neither confirmed yet
C23_Witness ==
  /\ \A e \in Executions : ReadInsufficient(e) /\ ApprovesBy(e) # {}
  /\ \A e \in Executions : racePc[e] = "approveWait"
====
